---- MODULE Spec2Model ----
(***************************************************************************)
(* Model of the Autonomous Data Analyst: the supervisor, the SQL agent     *)
(* graph (schema lookup, structure validation, SQL building, execution)   *)
(* and the result shaper.                                                  *)
(*                                                                         *)
(* Python values are tagged records, so that None, strings, integers,     *)
(* lists, tuples and dicts can be told apart the way isinstance and       *)
(* truthiness tell them apart.  A Python string is a sequence of text     *)
(* chunks; " " is the one-character whitespace chunk, so that the test    *)
(* ' ' in col  can be computed.  String concatenation is \o.              *)
(*                                                                         *)
(* Spec is one request through supervisor.  SpecCompile runs              *)
(* generate_structure_node's validation and build_sql_from_structure on   *)
(* a drawn LLM reply; SpecShape runs transform_sql_to_viz_data on a drawn *)
(* result; SpecHelpers runs strip_code_markers and sanitize_plot_code on  *)
(* a drawn text.  The messages list of SQLAgentState and the printed      *)
(* output are left out: nothing reads them back.                          *)
(***************************************************************************)
EXTENDS Integers, Sequences, FiniteSets, TLC

\* ------------------------------------------------------------ bounds
MaxColumns == 2     \* longest "columns" list an intent carries
MaxWhere == 2       \* longest "where" list an intent carries
MaxRows == 3        \* longest row list handed to the result shaper
MaxCode == 5        \* most pieces in a text handed to the code helpers
MaxRequests == 2    \* requests one run of the application serves

\* ------------------------------------------------------------ Python values
None == [t |-> "None"]
Str(s) == [t |-> "str", v |-> s]
S(c) == [t |-> "str", v |-> <<c>>]
IntV(n) == [t |-> "int", v |-> n]
List(xs) == [t |-> "list", v |-> xs]
Tuple(xs) == [t |-> "tuple", v |-> xs]
Dict(d) == [t |-> "dict", v |-> d]

\* bool(x): None, "", 0, [], () and {} are falsy
Truthy(x) ==
    CASE x.t = "None" -> FALSE
      [] x.t = "int" -> x.v # 0
      [] x.t = "dict" -> DOMAIN x.v # {}
      [] OTHER -> x.v # <<>>

\* str(x) as an f-string interpolates it
Format(x) ==
    CASE x.t = "None" -> <<"None">>
      [] x.t = "int" -> <<ToString(x.v)>>
      [] OTHER -> x.v

\* d.get(k) and d.get(k, default)
Get(d, k) == IF k \in DOMAIN d THEN d[k] ELSE None
GetDefault(d, k, default) == IF k \in DOMAIN d THEN d[k] ELSE default

\* d[k] = v
Put(d, k, v) == [x \in DOMAIN d \cup {k} |-> IF x = k THEN v ELSE d[x]]

\* the empty dict
EmptyDict == [x \in {} |-> None]

Range(f) == {f[i] : i \in DOMAIN f}

RECURSIVE Join(_, _)
\* sep.join(parts), parts a sequence of strings
Join(parts, sep) ==
    IF parts = <<>> THEN <<>>
    ELSE IF Len(parts) = 1 THEN parts[1]
    ELSE parts[1] \o sep \o Join(Tail(parts), sep)

\* how a call ends: it returns a value or raises an exception
Return(v) == [raised |-> FALSE, value |-> v]
Raise(exc, msg) == [raised |-> TRUE, exc |-> exc, msg |-> msg]

\* ------------------------------------------------------------ SQL builder
\* f'"{col}"' if ' ' in col else col
QuoteIdent(col) ==
    IF \E i \in DOMAIN col : col[i] = " "
    THEN <<"\"">> \o col \o <<"\"">>
    ELSE col

\* mutant: the columns are listed in reverse
SelectClause_Reversed(structure) ==
    IF structure["operation"] = S("COUNT")
    THEN <<"SELECT COUNT(*)">>
    ELSE LET cs == structure["columns"].v
             columns == [i \in DOMAIN cs |-> QuoteIdent(cs[Len(cs) + 1 - i].v)]
         IN IF columns # <<>>
            THEN <<"SELECT ">> \o Join(columns, <<", ">>)
            ELSE <<"SELECT *">>

\* the projection: SELECT COUNT(*), SELECT <columns> or SELECT *
SelectClause(structure) ==
    IF structure["operation"] = S("COUNT")
    THEN <<"SELECT COUNT(*)">>
    ELSE LET cs == structure["columns"].v
             columns == [i \in DOMAIN cs |-> QuoteIdent(cs[i].v)]
         IN IF columns # <<>>
            THEN <<"SELECT ">> \o Join(columns, <<", ">>)
            ELSE <<"SELECT *">>

\* sql += f" FROM {structure['table']}"
FromClause(structure) == <<" FROM ">> \o Format(structure["table"])

\* one rendered predicate: f"{col} {op} {val}"
WherePart(clause) ==
    QuoteIdent(clause["column"].v) \o <<" ">> \o Format(clause["operator"])
        \o <<" ">> \o (<<"'">> \o Format(clause["value"]) \o <<"'">>)

\* mutant: the predicates are joined by OR
WhereSql_Or(structure) ==
    IF Truthy(Get(structure, "where"))
    THEN LET ws == structure["where"].v
             where_parts == [i \in DOMAIN ws |-> WherePart(ws[i])]
         IN <<" WHERE ">> \o Join(where_parts, <<" OR ">>)
    ELSE <<>>

\* sql += f" WHERE {' AND '.join(where_parts)}" when structure.get("where")
WhereSql(structure) ==
    IF Truthy(Get(structure, "where"))
    THEN LET ws == structure["where"].v
             where_parts == [i \in DOMAIN ws |-> WherePart(ws[i])]
         IN <<" WHERE ">> \o Join(where_parts, <<" AND ">>)
    ELSE <<>>

\* direction = structure.get("order_direction", "ASC")
OrderDirection(structure) == GetDefault(structure, "order_direction", S("ASC"))

\* mutant: a COUNT query gets no ORDER BY clause
OrderBySql_NotForCount(structure) ==
    IF Truthy(Get(structure, "order_by")) /\ structure["operation"] # S("COUNT")
    THEN <<" ORDER BY ">> \o QuoteIdent(structure["order_by"].v) \o <<" ">>
             \o Format(OrderDirection(structure))
    ELSE <<>>

\* sql += f" ORDER BY {col} {direction}" when structure.get("order_by")
OrderBySql(structure) ==
    IF Truthy(Get(structure, "order_by"))
    THEN <<" ORDER BY ">> \o QuoteIdent(structure["order_by"].v) \o <<" ">>
             \o Format(OrderDirection(structure))
    ELSE <<>>

\* mutant: the LIMIT guard forgets the operation
LimitApplies_AnyOperation(structure) == Truthy(Get(structure, "limit"))

\* the guard of the LIMIT clause
LimitApplies(structure) ==
    Truthy(Get(structure, "limit")) /\ structure["operation"] # S("COUNT")

\* sql += f" LIMIT {structure['limit']}"
LimitSql(structure) ==
    IF LimitApplies(structure)
    THEN <<" LIMIT ">> \o Format(structure["limit"])
    ELSE <<>>

\* iterating structure["columns"] raises TypeError when it is None
BuildRaises(structure) ==
    structure["operation"] # S("COUNT") /\ structure["columns"].t # "list"

\* mutant: the builder takes the limit out of the structure once it is written
StructureAfterBuild_LimitPopped(structure) ==
    IF LimitApplies(structure) THEN Put(structure, "limit", None) ELSE structure

\* the structure once build_sql_from_structure has run: the function reads it
\* with [] and .get() and assigns only to its locals sql, columns, col, op, val
StructureAfterBuild(structure) == structure

build_sql_from_structure(structure) ==
    IF BuildRaises(structure)
    THEN Raise("TypeError", <<"'NoneType' object is not iterable">>)
    ELSE Return(SelectClause(structure) \o FromClause(structure)
                    \o WhereSql(structure) \o OrderBySql(structure)
                    \o LimitSql(structure))

\* ------------------------------------------------------------ validation
\* ', '.join(available_columns)
AvailableText(available_columns) ==
    Join([i \in DOMAIN available_columns |-> available_columns[i].v], <<", ">>)

\* the three ValueError messages; place is "table", "WHERE clause" or "ORDER BY"
UnknownColumnMsg(col, place, available_columns) ==
    <<"Column '">> \o Format(col) \o <<"' not found in ", place, ".\n">>
        \o <<"Available columns: ">> \o AvailableText(available_columns)

\* mutant: the table is filled in only when the intent carries none
ForceTable_KeepProposed(structure, selected_table) ==
    IF "table" \in DOMAIN structure THEN structure
    ELSE Put(structure, "table", selected_table)

\* structure["table"] = state["selected_table"]
ForceTable(structure, selected_table) == Put(structure, "table", selected_table)

\* mutant: the loop goes on to the last unknown name
FirstUnknown_Last(xs, available_columns) ==
    LET bad == {i \in DOMAIN xs : xs[i] \notin Range(available_columns)}
    IN IF bad = {} THEN 0 ELSE CHOOSE i \in bad : \A j \in bad : i >= j

\* index of the first element of xs (a sequence) that is not in the schema, or 0
FirstUnknown(xs, available_columns) ==
    LET bad == {i \in DOMAIN xs : xs[i] \notin Range(available_columns)}
    IN IF bad = {} THEN 0 ELSE CHOOSE i \in bad : \A j \in bad : i <= j

\* the columns of the selected list, of the WHERE predicates, checked in turn
SelectedColumns(structure) ==
    IF Truthy(Get(structure, "columns")) THEN structure["columns"].v ELSE <<>>
\* mutant: the WHERE predicates are not checked
WhereColumns_Unchecked(structure) == <<>>
WhereColumns(structure) ==
    IF Truthy(Get(structure, "where"))
    THEN [i \in DOMAIN structure["where"].v |-> structure["where"].v[i]["column"]]
    ELSE <<>>
\* mutant: the ORDER BY column is never checked
OrderByChecked_Skipped(structure) == FALSE
OrderByChecked(structure) == Truthy(Get(structure, "order_by"))

\* "Set defaults": a missing key gets its default, a present key is kept
SetDefaults(structure) ==
    LET d1 == IF "operation" \notin DOMAIN structure
              THEN Put(structure, "operation", S("SELECT")) ELSE structure
        d2 == IF "columns" \notin DOMAIN d1 THEN Put(d1, "columns", List(<<>>)) ELSE d1
        d3 == IF "where" \notin DOMAIN d2 THEN Put(d2, "where", None) ELSE d2
        d4 == IF "order_by" \notin DOMAIN d3 THEN Put(d3, "order_by", None) ELSE d3
        d5 == IF "order_direction" \notin DOMAIN d4
              THEN Put(d4, "order_direction", None) ELSE d4
    IN IF "limit" \notin DOMAIN d5 THEN Put(d5, "limit", None) ELSE d5

\* the body of generate_structure_node after json.loads succeeded
ValidateStructure(parsed, selected_table, available_columns) ==
    LET structure == ForceTable(parsed, selected_table)
        sel == SelectedColumns(structure)
        whr == WhereColumns(structure)
        bs == FirstUnknown(sel, available_columns)
        bw == FirstUnknown(whr, available_columns)
    IN IF bs # 0
       THEN Raise("ValueError", UnknownColumnMsg(sel[bs], "table", available_columns))
       ELSE IF bw # 0
       THEN Raise("ValueError",
                  UnknownColumnMsg(whr[bw], "WHERE clause", available_columns))
       ELSE IF OrderByChecked(structure)
               /\ structure["order_by"] \notin Range(available_columns)
       THEN Raise("ValueError",
                  UnknownColumnMsg(structure["order_by"], "ORDER BY", available_columns))
       ELSE Return(SetDefaults(structure))

\* ------------------------------------------------------------ result shaper
\* Counter(): keys in first-insertion order with their counts
EmptyCounter == [keys |-> <<>>, counts |-> <<>>]

\* mutant: a new key goes to the front
CounterAdd_Front(c, x) ==
    IF \E i \in DOMAIN c.keys : c.keys[i] = x
    THEN LET i == CHOOSE j \in DOMAIN c.keys : c.keys[j] = x
         IN [c EXCEPT !.counts[i] = @ + 1]
    ELSE [keys |-> <<x>> \o c.keys, counts |-> <<1>> \o c.counts]

\* counter[x] += 1
CounterAdd(c, x) ==
    IF \E i \in DOMAIN c.keys : c.keys[i] = x
    THEN LET i == CHOOSE j \in DOMAIN c.keys : c.keys[j] = x
         IN [c EXCEPT !.counts[i] = @ + 1]
    ELSE [keys |-> Append(c.keys, x), counts |-> Append(c.counts, 1)]

RECURSIVE CounterFrom(_, _)
\* Counter(values), fed left to right
CounterFrom(values, c) ==
    IF values = <<>> THEN c
    ELSE CounterFrom(Tail(values), CounterAdd(c, Head(values)))

Counter(values) == CounterFrom(values, EmptyCounter)

\* list(x) of a value that is not a list: the items of a tuple, the pieces of a str
ToList(x) ==
    IF x.t = "list" THEN x.v
    ELSE IF x.t = "str" THEN [i \in DOMAIN x.v |-> S(x.v[i])]
    ELSE x.v

\* list(x) raises TypeError for a value that cannot be iterated
Iterable(x) == x.t \in {"list", "tuple", "str"}

\* mutant: only None counts as empty
IsEmptyResult_OnlyNone(sql_result) == sql_result.t = "None"

\* the "if not sql_result" test
IsEmptyResult(sql_result) == ~Truthy(sql_result)

\* single column of strings: count occurrences
CategoricalAggregate(values) ==
    LET counts == Counter(values)
    IN Dict([categories |-> List(counts.keys),
             counts |-> List([i \in DOMAIN counts.counts |-> IntV(counts.counts[i])]),
             total |-> IntV(Len(values)),
             raw_values |-> List(values)])

\* mutant: the values are deduplicated
NumericSeries_Distinct(values) ==
    Dict([values |-> List(Counter(values).keys), total |-> IntV(Len(values))])

\* single column of anything else: the values as they are
NumericSeries(values) == Dict([values |-> List(values), total |-> IntV(Len(values))])

\* mutant: the column names are numbered from 1
RowTable_OneBased(rows) ==
    LET num_cols == Len(rows[1].v)
        column_names == [i \in 1..num_cols |-> S("col_" \o ToString(i))]
        row_dict(row) == Dict([k \in Range(column_names) |->
                                 row.v[CHOOSE i \in 1..num_cols : column_names[i] = k]])
    IN Dict([rows |-> List([r \in DOMAIN rows |-> row_dict(rows[r])]),
             columns |-> List(column_names),
             total_rows |-> IntV(Len(rows))])

\* several columns: one mapping col_i -> row[i] per row
RowTable(rows) ==
    LET num_cols == Len(rows[1].v)
        column_names == [i \in 1..num_cols |-> S("col_" \o ToString(i - 1))]
        row_dict(row) == Dict([k \in Range(column_names) |->
                                 row.v[CHOOSE i \in 1..num_cols : column_names[i] = k]])
    IN Dict([rows |-> List([r \in DOMAIN rows |-> row_dict(rows[r])]),
             columns |-> List(column_names),
             total_rows |-> IntV(Len(rows))])

\* the tuple branch: one column (categorical or numeric) or several
ShapeTuples(rows) ==
    IF Len(rows[1].v) = 1
    THEN LET values == [i \in DOMAIN rows |-> rows[i].v[1]]
         IN IF values[1].t = "str"
            THEN CategoricalAggregate(values)
            ELSE NumericSeries(values)
    ELSE RowTable(rows)

transform_sql_to_viz_data(sql_result) ==
    IF IsEmptyResult(sql_result) THEN Return(List(<<>>))
    ELSE IF sql_result.t = "dict" THEN Return(sql_result)
    ELSE IF ~Iterable(sql_result)
    THEN Raise("TypeError", <<"object is not iterable">>)
    ELSE LET rows == ToList(sql_result)
         IN IF rows = <<>>
            THEN Raise("IndexError", <<"list index out of range">>)
            ELSE IF rows[1].t = "tuple"
            THEN Return(ShapeTuples(rows))
            ELSE Return(None)

\* ------------------------------------------------------------ generated code
\* A text of code is a sequence of pieces; the piece "tick" is one backtick and
\* the piece "fence" stands for three of them in a row.
Fence == <<"tick", "tick", "tick">>
Blank == {" ", "\n"}

RECURSIVE Spell(_)
\* the text with every fence piece written as its three backticks
Spell(code) ==
    IF code = <<>> THEN <<>>
    ELSE (IF Head(code) = "fence" THEN Fence ELSE <<Head(code)>>) \o Spell(Tail(code))

\* the text a has w at place i
At(a, i, w) == i + Len(w) - 1 <= Len(a) /\ SubSeq(a, i, i + Len(w) - 1) = w

RECURSIVE BlankEnd(_, _)
\* \s* from place j, greedy: the place after the run of whitespace
BlankEnd(a, j) == IF j <= Len(a) /\ a[j] \in Blank THEN BlankEnd(a, j + 1) ELSE j

\* the newlines of a between places j and k - 1
Newlines(a, j, k) == {p \in j..(k - 1) : a[p] = "\n"}
Last(ps) == CHOOSE p \in ps : \A q \in ps : q <= p

\* the opening pattern, three backticks at a line start, an optional python,
\* whitespace and a newline (MULTILINE), at place i: the place after the match, or 0
OpenFenceEnd(a, i) ==
    IF ~((i = 1 \/ a[i - 1] = "\n") /\ At(a, i, Fence)) THEN 0
    ELSE LET j == IF At(a, i + 3, <<"python">>) THEN i + 4 ELSE i + 3
             ps == Newlines(a, j, BlankEnd(a, j))
         IN IF ps = {} THEN 0 ELSE Last(ps) + 1

\* the closing pattern, a newline, three backticks, whitespace and a line
\* end (MULTILINE), at place i: the place after the match, or 0
CloseFenceEnd(a, i) ==
    IF ~At(a, i, <<"\n">> \o Fence) THEN 0
    ELSE LET k == BlankEnd(a, i + 4)
             ps == Newlines(a, i + 4, k)
         IN IF k = Len(a) + 1 THEN k
            ELSE IF ps = {} THEN 0 ELSE Last(ps)

RECURSIVE RemoveOpenFences(_, _)
\* re.sub of the opening pattern, scanning from place i
RemoveOpenFences(a, i) ==
    IF i > Len(a) THEN <<>>
    ELSE IF OpenFenceEnd(a, i) # 0 THEN RemoveOpenFences(a, OpenFenceEnd(a, i))
    ELSE <<a[i]>> \o RemoveOpenFences(a, i + 1)

RECURSIVE RemoveCloseFences(_, _)
\* re.sub of the closing pattern, scanning from place i
RemoveCloseFences(a, i) ==
    IF i > Len(a) THEN <<>>
    ELSE IF CloseFenceEnd(a, i) # 0 THEN RemoveCloseFences(a, CloseFenceEnd(a, i))
    ELSE <<a[i]>> \o RemoveCloseFences(a, i + 1)

RECURSIVE StripBackticks(_)
\* code.strip of the backtick
StripBackticks(a) ==
    IF a # <<>> /\ Head(a) = "tick" THEN StripBackticks(Tail(a))
    ELSE IF a # <<>> /\ a[Len(a)] = "tick" THEN StripBackticks(SubSeq(a, 1, Len(a) - 1))
    ELSE a

RECURSIVE StripBlank(_)
\* str.strip() of a text of code
StripBlank(a) ==
    IF a # <<>> /\ Head(a) \in Blank THEN StripBlank(Tail(a))
    ELSE IF a # <<>> /\ a[Len(a)] \in Blank THEN StripBlank(SubSeq(a, 1, Len(a) - 1))
    ELSE a

strip_code_markers(code) ==
    LET opened == RemoveOpenFences(Spell(code), 1)
        closed == RemoveCloseFences(opened, 1)
    IN StripBlank(StripBackticks(closed))

RECURSIVE SplitLines(_, _)
\* code.splitlines(): a final newline opens no further line
SplitLines(a, line) ==
    IF a = <<>> THEN (IF line = <<>> THEN <<>> ELSE <<line>>)
    ELSE IF Head(a) = "\n" THEN <<line>> \o SplitLines(Tail(a), <<>>)
    ELSE SplitLines(Tail(a), Append(line, Head(a)))

\* stripped.startswith("import ") or stripped.startswith("from ")
SkippedLine(line) ==
    LET stripped == StripBlank(line)
    IN At(stripped, 1, <<"import", " ">>) \/ At(stripped, 1, <<"from", " ">>)

KeptLine(line) == ~SkippedLine(line)

sanitize_plot_code(code) == Join(SelectSeq(SplitLines(code, <<>>), KeptLine), <<"\n">>)

\* ------------------------------------------------------------ the database
FirstName == Str(<<"First", " ", "Name">>)
PeopleColumns == <<S("Index"), FirstName, S("Sex")>>
\* a table and a column whose names hold whitespace: a space, a tab
OrderItems == Str(<<"order", " ", "items">>)
ZipCode == Str(<<"Zip", "\t", "Code">>)

\* mutant: the names are those read when the module was loaded
get_tables_Cached(schema) == <<S("people"), S("orders")>>

\* get_tables(): the names in sqlite_master
get_tables(schema) == schema.tables

\* get_table_columns(t): PRAGMA table_info gives no row for an unknown table
get_table_columns(schema, table_name) ==
    IF \E i \in DOMAIN schema.tables : schema.tables[i] = table_name
    THEN schema.columns[CHOOSE i \in DOMAIN schema.tables : schema.tables[i] = table_name]
    ELSE <<>>

Schema0 == [tables |-> <<S("people"), S("orders")>>,
            columns |-> <<PeopleColumns, <<S("Email")>> >>]
\* the database after a table was added and people got a column
Schema1 == [tables |-> <<S("people"), S("orders"), S("persons")>>,
            columns |-> <<PeopleColumns \o <<S("Email")>>, <<S("Email")>>, <<S("Sex")>> >>]

\* ------------------------------------------------------------ what the LLM may say
Missing == [t |-> "missing"]
IntentKeys ==
    {"operation", "table", "columns", "where", "order_by", "order_direction", "limit"}

\* a JSON object: the keys whose choice is not Missing
MakeIntent(r) == [k \in {x \in IntentKeys : r[x] # Missing} |-> r[k]]

SeqsUpTo(xs, n) == UNION {[1..k -> xs] : k \in 0..n}
\* the lists of at most n distinct members of xs
ListsUpTo(xs, n) ==
    {s \in SeqsUpTo(xs, n) : \A i, j \in DOMAIN s : i # j => s[i] # s[j]}

Pred(c, o, v) == [column |-> c, operator |-> S(o), value |-> S(v)]

\* replies of the structure prompt that json.loads accepts
RawIntents(colLists, whereLists, orderBys, limits) ==
    {MakeIntent(r) : r \in
        [operation : {Missing, S("COUNT"), S("SELECT"), S("DELETE")},
         table : {Missing, S("users")},
         columns : {Missing, None} \cup {List(c) : c \in colLists},
         where : {Missing, None} \cup {List(w) : w \in whereLists},
         order_by : {Missing, None} \cup orderBys,
         order_direction : {Missing, None, S("DESC")},
         limit : {Missing, None} \cup {IntV(n) : n \in limits}]}

\* replies of the table prompt, before strip()
TableReplies == {<<"people">>, <<" ", "orders", "\n">>, <<"persons">>}

RECURSIVE LStrip(_)
LStrip(s) ==
    IF s # <<>> /\ Head(s) \in {" ", "\n"} THEN LStrip(Tail(s)) ELSE s
RECURSIVE RStrip(_)
RStrip(s) ==
    IF s # <<>> /\ s[Len(s)] \in {" ", "\n"} THEN RStrip(SubSeq(s, 1, Len(s) - 1)) ELSE s
\* str.strip()
Strip(s) == LStrip(RStrip(s))

\* ------------------------------------------------------------ the executor
\* what db.run does with a query: it raises, or returns some value
DbRaise == Raise("OperationalError", <<"no such table">>)
DbOutcomes ==
    {DbRaise,
     Return(List(<<>>)),
     Return(Str(<<>>)),
     Return(Str(<<"[(2,)]">>)),
     Return(List(<<Tuple(<<S("Male")>>), Tuple(<<S("Female")>>)>>)),
     Return(List(<<Tuple(<<IntV(2)>>)>>))}

run_sql(db_outcome) ==
    IF db_outcome.raised
    THEN Raise("Exception", <<"SQL execution error: ">> \o db_outcome.msg)
    ELSE IF ~Truthy(db_outcome.value)
    THEN Return(S("Query returned no results."))
    ELSE Return(db_outcome.value)

\* mutant: a failed execution is reported as an empty result
ExecutionResult_Swallowed(ran) ==
    IF ran.raised THEN S("Query returned no results.") ELSE ran.value

\* the try/except of build_and_execute_node around run_sql(sql)
ExecutionResult(ran) ==
    IF ran.raised THEN Dict([error |-> Str(ran.msg)]) ELSE ran.value

\* ------------------------------------------------------------ supervisor routing
viz_keywords ==
    {<<"plot">>, <<"graph">>, <<"visualize">>, <<"chart">>,
     <<"show", " ", "me", " ", "a", " ", "graph", " ", "of">>,
     <<"show", " ", "me", " ", "a", " ", "plot", " ", "of">>, <<"create">>}
sql_keywords ==
    {<<"count">>, <<"list">>, <<"show">>, <<"fetch">>, <<"oldest">>, <<"youngest">>,
     <<"how", " ", "many">>, <<"find">>, <<"get">>, <<"select">>, <<"display">>,
     <<"who">>, <<"what">>, <<"which">>, <<"all">>, <<"total">>, <<"first">>,
     <<"last">>}

LowerChunk(c) ==
    CASE c = "Plot" -> "plot" [] c = "Count" -> "count" [] c = "Hello" -> "hello"
      [] OTHER -> c
\* str.lower()
Lower(s) == [i \in DOMAIN s |-> LowerChunk(s[i])]

\* word in uq
Contains(uq, word) ==
    \E i \in 1..(Len(uq) - Len(word) + 1) : SubSeq(uq, i, i + Len(word) - 1) = word

\* mutant: the SQL keywords are looked for first
Route_SqlFirst(user_query) ==
    LET uq == Lower(user_query)
    IN IF \E word \in sql_keywords : Contains(uq, word) THEN "sql"
       ELSE IF \E word \in viz_keywords : Contains(uq, word) THEN "viz"
       ELSE "end"

\* the if / elif / default of supervisor
Route(user_query) ==
    LET uq == Lower(user_query)
    IN IF \E word \in viz_keywords : Contains(uq, word) THEN "viz"
       ELSE IF \E word \in sql_keywords : Contains(uq, word) THEN "sql"
       ELSE "end"

UserQueries ==
    {<<"Plot", " ", "count", " ", "of", " ", "males">>,
     <<"Count", " ", "males">>,
     <<"chart", " ", "sex">>,
     <<"Hello">>,
     <<"Hello", " ", "what", "ever">>}

\* mutant: the exception leaves supervisor instead of becoming a response
PipelineError_Propagated(route, error) == [raised |-> TRUE, error |-> error]

\* the except blocks of supervisor
PipelineError(route, error) ==
    [next_agent |-> "error",
     result |-> [error |-> error,
                 message |-> IF route = "viz"
                             THEN "Failed to process visualization query"
                             ELSE "Failed to process SQL query"]]

\* the SQL route after generate_and_execute_sql returned
SqlRouteResponse(resp) ==
    IF resp.result.t = "dict" /\ "error" \in DOMAIN resp.result.v
    THEN [next_agent |-> "error",
          result |-> [sql |-> resp.sql,
                      error |-> resp.result.v["error"],
                      message |-> "SQL execution failed"]]
    ELSE [next_agent |-> "sql",
          result |-> [sql |-> resp.sql, rows |-> resp.result,
                      structure |-> resp.structure]]

EndResponse ==
    [next_agent |-> "end",
     result |-> "I can only handle data queries right now."]

\* ------------------------------------------------------------ state
VARIABLES
    request,          \* the number of the request being served
    pc,               \* where the request is: idle, a graph node, a supervisor step, done
    route,            \* the branch supervisor took: viz, sql, end
    user_query,       \* the argument of supervisor
    schema,           \* the database's tables and columns
    state,            \* SQLAgentState, a dict
    calls,            \* the collaborators this request called, with argument and outcome
    sql_response,     \* what generate_and_execute_sql returned
    transformed_data, \* supervisor's local of that name
    viz_code,         \* supervisor's local of that name
    response,         \* what supervisor returned
    c_pc, c_in, c_validated, c_sql,   \* validate-then-build on a drawn intent
    c_again,                          \* what a second build of the same structure gives
    s_pc, s_in, s_out,                \* the result shaper on drawn rows
    v_pc, v_in, v_out, v_again        \* the code helpers on drawn texts

pipeline_vars == <<request, pc, route, user_query, schema, state, calls, sql_response,
                   transformed_data, viz_code, response>>
compile_vars == <<c_pc, c_in, c_validated, c_sql, c_again>>
shape_vars == <<s_pc, s_in, s_out>>
helper_vars == <<v_pc, v_in, v_out, v_again>>
harness_vars == <<compile_vars, shape_vars, helper_vars>>
vars == <<pipeline_vars, compile_vars, shape_vars, helper_vars>>

Unset == [t |-> "unset"]
Call(fn, arg, out) == [fn |-> fn, arg |-> arg, out |-> out]

PipelineInit ==
    /\ request = 1
    /\ pc = "idle"
    /\ route = "none"
    /\ user_query = <<>>
    /\ schema = Schema0
    /\ state = EmptyDict
    /\ calls = <<>>
    /\ sql_response = Unset
    /\ transformed_data = Unset
    /\ viz_code = Unset
    /\ response = Unset
CompileIdle ==
    /\ c_pc = "off" /\ c_in = Unset /\ c_validated = Unset /\ c_sql = Unset
    /\ c_again = Unset
ShapeIdle == s_pc = "off" /\ s_in = Unset /\ s_out = Unset
HelperIdle == v_pc = "off" /\ v_in = <<>> /\ v_out = <<>> /\ v_again = <<>>

\* ------------------------------------------------------------ the request
\* the replies of the structure prompt a request may get (parsed), or "not JSON"
PipelineIntents ==
    {[operation |-> S("COUNT")],
     [operation |-> S("COUNT"), table |-> S("users"), columns |-> List(<<>>),
      where |-> List(<<Pred(S("Sex"), "=", "Male")>>), order_by |-> None,
      order_direction |-> None, limit |-> None],
     [operation |-> S("SELECT"), columns |-> List(<<FirstName>>),
      order_by |-> S("Sex"), limit |-> IntV(3)],
     [operation |-> S("SELECT"), columns |-> List(<<S("Gender")>>)],
     [operation |-> S("SELECT"), columns |-> None],
     [columns |-> List(<<S("Email")>>), order_by |-> S("Email"),
      order_direction |-> S("DESC")]}
NotJson == [t |-> "notjson"]

\* supervisor, up to the call of generate_and_execute_sql or the final return
Supervisor ==
    /\ pc = "idle"
    /\ \E q \in UserQueries :
        /\ user_query' = q
        /\ route' = Route(q)
        /\ IF Route(q) = "end"
           THEN pc' = "done" /\ response' = EndResponse
           ELSE pc' = "user_input" /\ UNCHANGED response
    /\ UNCHANGED <<schema, state, calls, sql_response, transformed_data, viz_code>>
    /\ UNCHANGED <<request, harness_vars>>

user_input_node ==
    /\ pc = "user_input"
    /\ state' = Put(state, "user_query", Str(user_query))
    /\ pc' = "fetch_tables"
    /\ UNCHANGED <<route, user_query, schema, calls, sql_response, transformed_data,
                   viz_code, response>>
    /\ UNCHANGED <<request, harness_vars>>

fetch_tables_node ==
    /\ pc = "fetch_tables"
    /\ state' = Put(state, "tables", List(get_tables(schema)))
    /\ calls' = Append(calls, Call("get_tables", None, List(get_tables(schema))))
    /\ pc' = "select_table"
    /\ UNCHANGED <<route, user_query, schema, sql_response, transformed_data,
                   viz_code, response>>
    /\ UNCHANGED <<request, harness_vars>>

select_table_node ==
    /\ pc = "select_table"
    /\ \E reply \in TableReplies :
        state' = Put(state, "selected_table", Str(Strip(reply)))
    /\ pc' = "fetch_schema"
    /\ UNCHANGED <<route, user_query, schema, calls, sql_response, transformed_data,
                   viz_code, response>>
    /\ UNCHANGED <<request, harness_vars>>

fetch_schema_node ==
    /\ pc = "fetch_schema"
    /\ LET columns == get_table_columns(schema, state["selected_table"])
       IN /\ state' = Put(state, "columns", List(columns))
          /\ calls' = Append(calls, Call("get_table_columns", state["selected_table"],
                                         List(columns)))
    /\ pc' = "generate_structure"
    /\ UNCHANGED <<route, user_query, schema, sql_response, transformed_data,
                   viz_code, response>>
    /\ UNCHANGED <<request, harness_vars>>

\* mutant: a failed proposal is asked for again
AfterStructure_Retry(r) == IF r.raised THEN "generate_structure" ELSE "build_and_execute"

\* where the request goes after generate_structure_node: along the only edge to
\* build_and_execute, or out of the graph with the exception
AfterStructure(r) == IF r.raised THEN "done" ELSE "build_and_execute"

\* generate_structure_node; what it raises leaves the graph and reaches supervisor's except
generate_structure_node ==
    /\ pc = "generate_structure"
    /\ \E reply \in PipelineIntents \cup {NotJson} :
        LET r == IF reply = NotJson
                 THEN Raise("ValueError", <<"Failed to parse JSON from LLM">>)
                 ELSE ValidateStructure(reply, state["selected_table"], state["columns"].v)
        IN /\ calls' = Append(calls, Call("generate_structure", reply, r))
           /\ pc' = AfterStructure(r)
           /\ IF r.raised
              THEN /\ response' = PipelineError(route, Str(r.msg))
                   /\ UNCHANGED state
              ELSE /\ state' = Put(state, "query_structure", Dict(r.value))
                   /\ UNCHANGED response
    /\ UNCHANGED <<route, user_query, schema, sql_response, transformed_data, viz_code>>
    /\ UNCHANGED <<request, harness_vars>>

\* mutant: the SQL text is not handed back
SqlResponse_NoSql(final_state) ==
    [sql |-> Str(<<>>),
     result |-> GetDefault(final_state, "result", Str(<<>>)),
     structure |-> GetDefault(final_state, "query_structure", Dict(EmptyDict))]

\* final_state -> the dict generate_and_execute_sql returns
SqlResponse(final_state) ==
    [sql |-> GetDefault(final_state, "sql_query", Str(<<>>)),
     result |-> GetDefault(final_state, "result", Str(<<>>)),
     structure |-> GetDefault(final_state, "query_structure", Dict(EmptyDict))]

\* build_and_execute_node, then END and the return of generate_and_execute_sql
build_and_execute_node ==
    /\ pc = "build_and_execute"
    /\ LET built == build_sql_from_structure(state["query_structure"].v)
       IN IF built.raised
          THEN /\ pc' = "done"
               /\ response' = PipelineError(route, Str(built.msg))
               /\ UNCHANGED <<state, calls, sql_response>>
          ELSE \E db_outcome \in DbOutcomes :
                LET ran == run_sql(db_outcome)
                    structure == StructureAfterBuild(state["query_structure"].v)
                    final_state == Put(Put(Put(state, "query_structure", Dict(structure)),
                                           "sql_query", Str(built.value)),
                                       "result", ExecutionResult(ran))
                IN /\ calls' = Append(calls, Call("run_sql", Str(built.value), ran))
                   /\ state' = final_state
                   /\ sql_response' = SqlResponse(final_state)
                   /\ pc' = "returned"
                   /\ UNCHANGED response
    /\ UNCHANGED <<route, user_query, schema, transformed_data, viz_code>>
    /\ UNCHANGED <<request, harness_vars>>

\* what the code prompt may give back after strip_code_markers
VizCodes == {<<"plt.bar(data['categories'], data['counts'])">>, <<"plt.plot(data)">>}
\* llm.invoke may raise instead of answering
LlmFailure == Raise("Exception", <<"LLM call failed">>)

\* supervisor step 2: transform_sql_to_viz_data(sql_response['result'], user_query)
TransformStep ==
    /\ pc = "returned" /\ route = "viz"
    /\ LET shaped == transform_sql_to_viz_data(sql_response.result)
       IN /\ calls' = Append(calls, Call("transform_sql_to_viz_data",
                                         sql_response.result, shaped))
          /\ IF shaped.raised
             THEN /\ pc' = "done"
                  /\ response' = PipelineError(route, Str(shaped.msg))
                  /\ UNCHANGED transformed_data
             ELSE /\ pc' = "generate_viz"
                  /\ transformed_data' = shaped.value
                  /\ UNCHANGED response
    /\ UNCHANGED <<route, user_query, schema, state, sql_response, viz_code>>
    /\ UNCHANGED <<request, harness_vars>>

\* supervisor step 3: generate_viz_code(user_query, transformed_data, data_description)
GenerateVizStep ==
    /\ pc = "generate_viz"
    /\ \E generated \in {Return(Str(code)) : code \in VizCodes} \cup {LlmFailure} :
        /\ calls' = Append(calls, Call("generate_viz_code", transformed_data, generated))
        /\ IF generated.raised
           THEN /\ pc' = "done"
                /\ response' = PipelineError(route, Str(generated.msg))
                /\ UNCHANGED viz_code
           ELSE /\ pc' = "run_plot"
                /\ viz_code' = generated.value
                /\ UNCHANGED response
    /\ UNCHANGED <<route, user_query, schema, state, sql_response, transformed_data>>
    /\ UNCHANGED <<request, harness_vars>>

\* supervisor step 4: run_plot_code(viz_code, transformed_data), which may raise
RunPlotStep ==
    /\ pc = "run_plot"
    /\ \E plotted \in {Return(S("figure")), Raise("Exception", <<"plot failed">>)} :
        /\ calls' = Append(calls, Call("run_plot_code", transformed_data, plotted))
        /\ response' = IF plotted.raised
                       THEN PipelineError(route, Str(plotted.msg))
                       ELSE [next_agent |-> "viz", result |-> plotted.value,
                             code |-> viz_code]
    /\ pc' = "done"
    /\ UNCHANGED <<route, user_query, schema, state, sql_response, transformed_data,
                   viz_code>>
    /\ UNCHANGED <<request, harness_vars>>

\* the SQL branch of supervisor after generate_and_execute_sql returned
SqlRouteStep ==
    /\ pc = "returned" /\ route = "sql"
    /\ response' = SqlRouteResponse(sql_response)
    /\ pc' = "done"
    /\ UNCHANGED <<route, user_query, schema, state, calls, sql_response,
                   transformed_data, viz_code>>
    /\ UNCHANGED <<request, harness_vars>>

\* the application serves the next query (app.py runs supervisor once per
\* prompt); the database may have been altered since the last one
NextRequest ==
    /\ pc = "done"
    /\ request < MaxRequests
    /\ request' = request + 1
    /\ schema' \in {Schema0, Schema1}
    /\ pc' = "idle"
    /\ route' = "none"
    /\ user_query' = <<>>
    /\ state' = EmptyDict
    /\ calls' = <<>>
    /\ sql_response' = Unset
    /\ transformed_data' = Unset
    /\ viz_code' = Unset
    /\ response' = Unset
    /\ UNCHANGED harness_vars

Next ==
    \/ Supervisor
    \/ user_input_node
    \/ fetch_tables_node
    \/ select_table_node
    \/ fetch_schema_node
    \/ generate_structure_node
    \/ build_and_execute_node
    \/ TransformStep
    \/ GenerateVizStep
    \/ RunPlotStep
    \/ SqlRouteStep
    \/ NextRequest

\* ------------------------------------------------------------ validate, then build
\* the table the request resolved and the columns fetched for it
CompileContexts ==
    {[selected_table |-> S("people"), columns |-> PeopleColumns],
     [selected_table |-> OrderItems, columns |-> <<S("Email"), ZipCode>>]}

\* the replies over the column names an LLM may come up with
CompileIntents(names) ==
    RawIntents(ListsUpTo(names, MaxColumns),
               ListsUpTo({Pred(S("Sex"), "=", "Male"),
                          Pred(FirstName, "LIKE", "%Smith%"),
                          Pred(S("Gender"), "!=", "Male")}, MaxWhere),
               names,
               {0, 3})

CompileInit ==
    /\ c_pc = "validate"
    /\ c_in \in {[intent |-> i, selected_table |-> c.selected_table, columns |-> c.columns] :
                    i \in CompileIntents({S("Sex"), FirstName, S("Gender"), ZipCode}),
                    c \in CompileContexts}
    /\ c_validated = Unset
    /\ c_sql = Unset
    /\ c_again = Unset

\* generate_structure_node on the drawn reply
CompileValidate ==
    /\ c_pc = "validate"
    /\ c_validated' = ValidateStructure(c_in.intent, c_in.selected_table, c_in.columns)
    /\ c_pc' = IF c_validated'.raised THEN "rejected" ELSE "build"
    /\ UNCHANGED <<c_in, c_sql, c_again, pipeline_vars, shape_vars, helper_vars>>

\* build_sql_from_structure on the validated structure, and once more on the
\* structure as the first call left it
CompileBuild ==
    /\ c_pc = "build"
    /\ LET after == StructureAfterBuild(c_validated.value)
       IN /\ c_sql' = build_sql_from_structure(c_validated.value)
          /\ c_validated' = Return(after)
          /\ c_again' = build_sql_from_structure(after)
    /\ c_pc' = "built"
    /\ UNCHANGED <<c_in, pipeline_vars, shape_vars, helper_vars>>

\* ------------------------------------------------------------ shaping drawn rows
OneColumnRows ==
    {List([i \in DOMAIN s |-> Tuple(<<s[i]>>)]) :
        s \in SeqsUpTo({S("Male"), S("Female"), IntV(2), IntV(5)}, MaxRows)}
TwoColumnRows ==
    {List(s) : s \in SeqsUpTo({Tuple(<<S("a"), IntV(1)>>), Tuple(<<S("b"), IntV(2)>>)},
                              MaxRows)}
OtherResults ==
    {None, Str(<<>>), Tuple(<<>>), S("Query returned no results."),
     Dict([error |-> S("SQL execution error: no such table")]), Dict(EmptyDict),
     List(<<S("a"), S("b")>>), List(<<Dict([name |-> S("a")])>>), IntV(0), IntV(2)}

ShapeInit ==
    /\ s_pc = "shape"
    /\ s_in \in OneColumnRows \cup TwoColumnRows \cup OtherResults
    /\ s_out = Unset

Shape ==
    /\ s_pc = "shape"
    /\ s_out' = transform_sql_to_viz_data(s_in)
    /\ s_pc' = "shaped"
    /\ UNCHANGED <<s_in, pipeline_vars, compile_vars, helper_vars>>

\* ------------------------------------------------------------ helpers on drawn texts
\* what the code prompt may give back, piece by piece
MarkedTexts(n) == SeqsUpTo({"fence", "tick", "python", "\n", " ", "code"}, n)
PlotTexts(n) == SeqsUpTo({"import", "from", " ", "\n", "os", ";"}, n)

HelperInit ==
    /\ \/ v_pc = "strip" /\ v_in \in MarkedTexts(MaxCode)
       \/ v_pc = "sanitize" /\ v_in \in PlotTexts(MaxCode)
    /\ v_out = <<>>
    /\ v_again = <<>>

\* strip_code_markers on the drawn text
StripMarkers ==
    /\ v_pc = "strip"
    /\ v_out' = strip_code_markers(v_in)
    /\ v_pc' = "stripped"
    /\ UNCHANGED <<v_in, v_again, pipeline_vars, compile_vars, shape_vars>>

\* strip_code_markers on what it returned
StripMarkersAgain ==
    /\ v_pc = "stripped"
    /\ v_again' = strip_code_markers(v_out)
    /\ v_pc' = "restripped"
    /\ UNCHANGED <<v_in, v_out, pipeline_vars, compile_vars, shape_vars>>

\* sanitize_plot_code on the drawn text
Sanitize ==
    /\ v_pc = "sanitize"
    /\ v_out' = sanitize_plot_code(v_in)
    /\ v_pc' = "sanitized"
    /\ UNCHANGED <<v_in, v_again, pipeline_vars, compile_vars, shape_vars>>

PipelineOff ==
    /\ request = 0
    /\ pc = "off" /\ route = "none" /\ user_query = <<>> /\ schema = Schema0
    /\ state = EmptyDict /\ calls = <<>> /\ sql_response = Unset
    /\ transformed_data = Unset /\ viz_code = Unset /\ response = Unset

Init == PipelineInit /\ CompileIdle /\ ShapeIdle /\ HelperIdle
Spec == Init /\ [][Next]_vars

InitCompile == PipelineOff /\ CompileInit /\ ShapeIdle /\ HelperIdle
NextCompile == CompileValidate \/ CompileBuild
SpecCompile == InitCompile /\ [][NextCompile]_vars

InitShape == PipelineOff /\ CompileIdle /\ ShapeInit /\ HelperIdle
NextShape == Shape
SpecShape == InitShape /\ [][NextShape]_vars

InitHelpers == PipelineOff /\ CompileIdle /\ ShapeIdle /\ HelperInit
NextHelpers == StripMarkers \/ StripMarkersAgain \/ Sanitize
SpecHelpers == InitHelpers /\ [][NextHelpers]_vars

\* ------------------------------------------------------------ properties
\* the drawn intent of the validate-then-build run, and what was fetched for it
DrawnIntent == c_in.intent
Available == Range(c_in.columns)
Validated == c_pc \in {"build", "built"}
Built == c_pc = "built" /\ ~c_sql.raised

\* the out-of-schema names the drawn intent carries, field by field
UnknownSelected ==
    IF "columns" \in DOMAIN DrawnIntent /\ DrawnIntent["columns"].t = "list"
    THEN Range(DrawnIntent["columns"].v) \ Available ELSE {}
UnknownWhere ==
    IF "where" \in DOMAIN DrawnIntent /\ DrawnIntent["where"].t = "list"
    THEN {w["column"] : w \in Range(DrawnIntent["where"].v)} \ Available ELSE {}
UnknownOrderBy ==
    IF "order_by" \in DOMAIN DrawnIntent /\ DrawnIntent["order_by"].t = "str"
    THEN {DrawnIntent["order_by"]} \ Available ELSE {}

\* the error text names column n and the field it was found in
ErrorNames(msg, n, place) ==
    Contains(msg, <<"Column '">> \o n.v \o <<"' not found in ", place, ".\n">>)

\* C1: an intent that names an out-of-schema column in columns, in a where
\* predicate or in order_by is rejected: generate_structure_node raises, and the
\* error text names an offending column together with the field it came from
\* (select list: "table", WHERE clause, ORDER BY).
C1_UnknownColumnRejected ==
    (c_pc # "validate" /\ UnknownSelected \cup UnknownWhere \cup UnknownOrderBy # {}) =>
        /\ c_validated.raised
        /\ c_validated.exc = "ValueError"
        /\ \/ \E n \in UnknownSelected : ErrorNames(c_validated.msg, n, "table")
           \/ \E n \in UnknownWhere : ErrorNames(c_validated.msg, n, "WHERE clause")
           \/ \E n \in UnknownOrderBy : ErrorNames(c_validated.msg, n, "ORDER BY")

C1_Witness ==
    /\ c_pc = "rejected"
    /\ UnknownSelected = {} /\ UnknownWhere = {} /\ UnknownOrderBy = {S("Gender")}
    /\ ErrorNames(c_validated.msg, S("Gender"), "ORDER BY")

\* C2: a returned structure's table is the resolved table, whatever the intent
\* carried, and overriding it again changes nothing.
C2_TableOverridden ==
    Validated =>
        /\ c_validated.value["table"] = c_in.selected_table
        /\ ForceTable(c_validated.value, c_in.selected_table) = c_validated.value

C2_Witness ==
    /\ Validated
    /\ "table" \in DOMAIN DrawnIntent
    /\ DrawnIntent["table"] # c_in.selected_table

\* every column name an intent of the model can carry
IntentNames == {S("Sex"), FirstName, S("Gender"), ZipCode}

\* C3: every column identifier in the SQL built from a validated structure is
\* one of the columns validation used: no name outside them occurs in the query.
C3_OnlyKnownColumns ==
    Built => \A n \in IntentNames : Contains(c_sql.value, n.v) => n \in Available

C3_Witness ==
    /\ Built
    /\ Contains(c_sql.value, <<"SELECT ", "Sex", ", ", "\"", "First", " ", "Name", "\"">>)
    /\ Contains(c_sql.value, <<" WHERE ", "\"", "First", " ", "Name", "\"">>)
    /\ Contains(c_sql.value, <<" ORDER BY ", "Sex">>)

\* C4: the SQL built for a COUNT structure has no LIMIT clause, whatever limit is.
C4_CountHasNoLimit ==
    (Built /\ c_validated.value["operation"] = S("COUNT")) =>
        ~Contains(c_sql.value, <<" LIMIT ">>)

C4_Witness ==
    /\ Built
    /\ c_validated.value["operation"] = S("COUNT")
    /\ c_validated.value["limit"] = IntV(3)

\* C5: with order_by set and order_direction unset (missing from the intent, or
\* null) the ordering clause is ORDER BY <column> ASC; with order_by unset there
\* is no ordering clause.
C5_DefaultAscending ==
    Built =>
        LET structure == c_validated.value
        IN IF Truthy(structure["order_by"])
           THEN ("order_direction" \notin DOMAIN DrawnIntent
                 \/ DrawnIntent["order_direction"] = None)
                => Contains(c_sql.value,
                            <<" ORDER BY ">> \o QuoteIdent(structure["order_by"].v)
                                \o <<" ", "ASC">>)
           ELSE ~Contains(c_sql.value, <<" ORDER BY ">>)

\* the calls of one collaborator made so far in the request
CallsOf(fn) == {i \in DOMAIN calls : calls[i].fn = fn}
ExecutionFailed == \E i \in CallsOf("run_sql") : calls[i].out.raised
ErrorRecord(x) == x.t = "dict" /\ "error" \in DOMAIN x.v

\* C6: the table written into the validated structure, and so into the query
\* that is built and executed, is one of the tables get_tables returned in the
\* request; a selected table outside that list never reaches the executor.
C6_TableInSchema ==
    /\ "query_structure" \in DOMAIN state
           => state["query_structure"].v["table"] \in Range(state["tables"].v)
    /\ CallsOf("run_sql") # {} => state["selected_table"] \in Range(state["tables"].v)

\* C7: when run_sql fails, build_and_execute_node raises nothing: the state it
\* leaves has result = {"error": <error text>} and sql_query = the query that was
\* attempted, and the graph run ends normally (generate_and_execute_sql returns).
C7_FailureBecomesResult ==
    \A i \in CallsOf("run_sql") :
        calls[i].out.raised =>
            /\ state["result"] = Dict([error |-> Str(calls[i].out.msg)])
            /\ Contains(calls[i].out.msg, DbRaise.msg)
            /\ state["sql_query"] = calls[i].arg
            /\ pc \in {"returned", "generate_viz", "run_plot", "done"}
            /\ sql_response = [sql |-> calls[i].arg, result |-> state["result"],
                               structure |-> state["query_structure"]]

C7_Witness ==
    /\ pc = "returned"
    /\ ExecutionFailed
    /\ state["sql_query"] = Str(<<"SELECT COUNT(*)", " FROM ", "persons">>)

\* C8: on either route, a request whose query execution failed ends with
\* next_agent = "error" and a result holding the attempted query and the failure
\* reason; the error record is never passed to the result shaper, the code
\* generator or the plot executor.
C8_FailureReported ==
    \A i \in CallsOf("run_sql") :
        calls[i].out.raised =>
            /\ pc = "done" =>
                /\ response.next_agent = "error"
                /\ "sql" \in DOMAIN response.result
                /\ response.result.sql = calls[i].arg
                /\ response.result.error = Str(calls[i].out.msg)
            /\ \A j \in DOMAIN calls :
                calls[j].fn \in {"transform_sql_to_viz_data", "generate_viz_code",
                                 "run_plot_code"}
                    => ~ErrorRecord(calls[j].arg)

\* an empty sequence of rows
EmptyRows(x) == x.t \in {"list", "tuple"} /\ x.v = <<>>
Shaped == s_pc = "shaped"

\* C9: shaping an empty sequence of rows returns the empty list, which is none
\* of the three shaped variants, and raises nothing.
C9_EmptyRowsGiveEmptyList ==
    (Shaped /\ EmptyRows(s_in)) =>
        /\ ~s_out.raised
        /\ s_out.value = List(<<>>)
        /\ s_out.value.t # "dict"

C9_Witness == Shaped /\ s_in = List(<<>>) /\ s_out = Return(List(<<>>))

\* a non-empty list of 1-tuples of strings, and its scalars in row order
StringRows(x) ==
    /\ x.t = "list" /\ x.v # <<>>
    /\ \A i \in DOMAIN x.v :
        x.v[i].t = "tuple" /\ Len(x.v[i].v) = 1 /\ x.v[i].v[1].t = "str"
Scalars(x) == [i \in DOMAIN x.v |-> x.v[i].v[1]]
FirstIndex(xs, x) == CHOOSE i \in DOMAIN xs : xs[i] = x /\ \A j \in 1..(i - 1) : xs[j] # x
RECURSIVE SumOf(_)
SumOf(ns) == IF ns = <<>> THEN 0 ELSE Head(ns).v + SumOf(Tail(ns))

\* C10: for a non-empty list of 1-tuples of strings, categories holds the
\* distinct values once each in order of first appearance, counts has the same
\* length, counts[i] is the number of rows equal to categories[i], and
\* sum(counts) = total = number of rows.
C10_CategoricalAggregate ==
    (Shaped /\ StringRows(s_in)) =>
        /\ ~s_out.raised
        /\ s_out.value.t = "dict"
        /\ LET values == Scalars(s_in)
               categories == s_out.value.v["categories"].v
               counts == s_out.value.v["counts"].v
           IN /\ Range(categories) = Range(values)
              /\ \A i, j \in DOMAIN categories : i # j => categories[i] # categories[j]
              /\ \A i, j \in DOMAIN categories :
                    i < j => FirstIndex(values, categories[i]) < FirstIndex(values, categories[j])
              /\ Len(categories) = Len(counts)
              /\ \A i \in DOMAIN categories :
                    counts[i] = IntV(Cardinality({r \in DOMAIN values : values[r] = categories[i]}))
              /\ SumOf(counts) = Len(s_in.v)
              /\ s_out.value.v["total"] = IntV(Len(s_in.v))

C10_Witness ==
    /\ Shaped
    /\ s_in = List(<<Tuple(<<S("Male")>>), Tuple(<<S("Female")>>), Tuple(<<S("Male")>>)>>)
    /\ s_out.value.v["categories"] = List(<<S("Male"), S("Female")>>)
    /\ s_out.value.v["counts"] = List(<<IntV(2), IntV(1)>>)
    /\ s_out.value.v["total"] = IntV(3)

\* a non-empty list of 1-tuples none of which holds a string
NonStringRows(x) ==
    /\ x.t = "list" /\ x.v # <<>>
    /\ \A i \in DOMAIN x.v :
        x.v[i].t = "tuple" /\ Len(x.v[i].v) = 1 /\ x.v[i].v[1].t # "str"

\* C11: for a non-empty list of 1-tuples of non-strings the result holds values,
\* the row scalars in row order (nothing merged, moved or dropped), and
\* total = len(values) = number of rows.
C11_NumericSeries ==
    (Shaped /\ NonStringRows(s_in)) =>
        /\ ~s_out.raised
        /\ s_out.value.t = "dict"
        /\ DOMAIN s_out.value.v = {"values", "total"}
        /\ LET values == s_out.value.v["values"].v
           IN /\ Len(values) = Len(s_in.v)
              /\ \A r \in DOMAIN s_in.v : values[r] = s_in.v[r].v[1]
              /\ s_out.value.v["total"] = IntV(Len(values))

C11_Witness ==
    /\ Shaped
    /\ s_in = List(<<Tuple(<<IntV(5)>>), Tuple(<<IntV(2)>>), Tuple(<<IntV(5)>>)>>)
    /\ s_out.value.v["values"] = List(<<IntV(5), IntV(2), IntV(5)>>)
    /\ s_out.value.v["total"] = IntV(3)

\* a non-empty list of tuples of one arity n > 1
WideRows(x) ==
    /\ x.t = "list" /\ x.v # <<>>
    /\ \A i \in DOMAIN x.v : x.v[i].t = "tuple" /\ Len(x.v[i].v) = Len(x.v[1].v)
    /\ Len(x.v[1].v) > 1

\* C12: for a non-empty list of tuples of arity n > 1 the result holds
\* columns = [col_0 .. col_{n-1}], one mapping per row in row order with
\* rows[r][col_i] = the i-th value of row r, and total_rows = number of rows.
C12_RowTable ==
    (Shaped /\ WideRows(s_in)) =>
        /\ ~s_out.raised
        /\ s_out.value.t = "dict"
        /\ LET n == Len(s_in.v[1].v)
               columns == s_out.value.v["columns"].v
               rows == s_out.value.v["rows"].v
           IN /\ Len(columns) = n
              /\ \A i \in 1..n : columns[i] = S("col_" \o ToString(i - 1))
              /\ Len(rows) = Len(s_in.v)
              /\ \A r \in DOMAIN rows :
                    /\ rows[r].t = "dict"
                    /\ DOMAIN rows[r].v = Range(columns)
                    /\ \A i \in 1..n : rows[r].v[columns[i]] = s_in.v[r].v[i]
              /\ s_out.value.v["total_rows"] = IntV(Len(s_in.v))

C12_Witness ==
    /\ Shaped
    /\ s_in = List(<<Tuple(<<S("b"), IntV(2)>>), Tuple(<<S("a"), IntV(1)>>)>>)
    /\ s_out.value.v["columns"] = List(<<S("col_0"), S("col_1")>>)
    /\ s_out.value.v["rows"].v[2].v[S("col_1")] = IntV(1)

\* the structure handed to the builder, and the text the builder returned
Structure == c_validated.value
Sql == c_sql.value

\* text s starts with text p
StartsWith(s, p) == Len(s) >= Len(p) /\ SubSeq(s, 1, Len(p)) = p
\* text s ends with text p
EndsWith(s, p) == Len(s) >= Len(p) /\ SubSeq(s, Len(s) - Len(p) + 1, Len(s)) = p

\* a name as the builder writes it
Written(n) == IF " " \in Range(n.v) THEN <<"\"">> \o n.v \o <<"\"">> ELSE n.v

RECURSIVE CommaList(_)
\* the names of ns in their order, comma-separated
CommaList(ns) ==
    IF Len(ns) = 1 THEN Written(ns[1])
    ELSE Written(ns[1]) \o <<", ">> \o CommaList(Tail(ns))

\* C13: the projection is SELECT COUNT(*) for operation COUNT whatever columns
\* holds; otherwise SELECT * for an empty column list; otherwise SELECT and the
\* columns in their given order, comma-separated, none added, dropped or moved.
\* The projection is directly followed by the FROM clause.
C13_Projection ==
    (c_pc = "built" /\ (Structure["operation"] = S("COUNT")
                          \/ Structure["columns"].t = "list")) =>
        /\ ~c_sql.raised
        /\ LET projection ==
                   IF Structure["operation"] = S("COUNT") THEN <<"SELECT COUNT(*)">>
                   ELSE IF Structure["columns"].v = <<>> THEN <<"SELECT *">>
                   ELSE <<"SELECT ">> \o CommaList(Structure["columns"].v)
           IN StartsWith(Sql, projection \o <<" FROM ">>)

C13_Witness ==
    /\ Built
    /\ Structure["operation"] = S("SELECT")
    /\ Structure["columns"] = List(<<S("Sex"), FirstName>>)
    /\ StartsWith(Sql, <<"SELECT ", "Sex", ", ", "\"", "First", " ", "Name", "\"", " FROM ">>)

RECURSIVE AndList(_)
\* the predicates of ws in their order, each <column> <operator> '<value>'
AndList(ws) ==
    LET p == Written(ws[1]["column"])
                 \o <<" ">> \o ws[1]["operator"].v \o <<" ", "'">>
                 \o ws[1]["value"].v \o <<"'">>
    IN IF Len(ws) = 1 THEN p ELSE p \o <<" AND ">> \o AndList(Tail(ws))

\* the chunks that may follow the WHERE clause
AfterWhere(s, i) == i > Len(s) \/ s[i] \in {" ORDER BY ", " LIMIT "}

\* C14: a WHERE clause is emitted exactly when where is a non-empty list; it
\* follows the table name and holds one rendered predicate per input predicate,
\* in list order, joined by " AND ", each <column> <operator> '<value>'.
C14_WhereClause ==
    Built =>
        LET where == Structure["where"]
            present == where.t = "list" /\ where.v # <<>>
            from == <<" FROM ">> \o Structure["table"].v
        IN /\ Contains(Sql, <<" WHERE ">>) <=> present
           /\ present =>
                LET clause == from \o <<" WHERE ">> \o AndList(where.v)
                IN \E i \in 1..(Len(Sql) - Len(clause) + 1) :
                       /\ SubSeq(Sql, i, i + Len(clause) - 1) = clause
                       /\ AfterWhere(Sql, i + Len(clause))

C14_Witness ==
    /\ Built
    /\ Structure["where"] = List(<<Pred(FirstName, "LIKE", "%Smith%"),
                                   Pred(S("Sex"), "=", "Male")>>)
    /\ Contains(Sql, <<" WHERE ", "\"", "First", " ", "Name", "\"", " ", "LIKE", " ",
                       "'", "%Smith%", "'", " AND ", "Sex", " ", "=", " ",
                       "'", "Male", "'">>)

\* C15: a LIMIT clause is emitted only when operation = SELECT and limit is set,
\* and whenever operation = SELECT and limit is set the query ends with
\* " LIMIT <limit>".
C15_LimitOnlyForSelect ==
    Built =>
        LET set == Structure["limit"].t = "int"
            select == Structure["operation"] = S("SELECT")
        IN /\ Contains(Sql, <<" LIMIT ">>) => (select /\ set)
           /\ (select /\ set) =>
                EndsWith(Sql, <<" LIMIT ", ToString(Structure["limit"].v)>>)

\* the whitespace characters a name of the model can hold
Whitespace == {" ", "\t", "\n"}

\* the places of text s where the name n is written
Occurrences(s, n) ==
    {i \in 1..(Len(s) - Len(n.v) + 1) : SubSeq(s, i, i + Len(n.v) - 1) = n.v}

\* the occurrence of n at place i of s stands between double quotes
Wrapped(s, n, i) ==
    /\ i > 1 /\ s[i - 1] = "\""
    /\ i + Len(n.v) <= Len(s) /\ s[i + Len(n.v)] = "\""

\* how often the structure uses the name n as a column the builder writes
Uses(structure, n) ==
    LET cols == IF structure["operation"] # S("COUNT")
                THEN {i \in DOMAIN structure["columns"].v : structure["columns"].v[i] = n}
                ELSE {}
        preds == IF structure["where"].t = "list"
                 THEN {i \in DOMAIN structure["where"].v :
                          structure["where"].v[i]["column"] = n}
                 ELSE {}
    IN Cardinality(cols) + Cardinality(preds)
           + (IF structure["order_by"] = n THEN 1 ELSE 0)

\* C16: every column identifier, in the projection, in a WHERE predicate and in
\* ORDER BY alike, is written between double quotes when it contains whitespace
\* and bare otherwise; the table name is never quoted.
C16_QuotedIffWhitespace ==
    Built =>
        /\ \A n \in IntentNames :
              /\ Cardinality(Occurrences(Sql, n)) = Uses(Structure, n)
              /\ \A i \in Occurrences(Sql, n) :
                    Wrapped(Sql, n, i) <=> (Range(n.v) \cap Whitespace # {})
        /\ Contains(Sql, <<" FROM ">> \o Structure["table"].v)

\* the places of the call log where fn was called
PlacesOf(fn) == {i \in DOMAIN calls : calls[i].fn = fn}

\* C17: within a request run_sql is called, and SQL stored, only after
\* generate_structure_node completed successfully; when generate_structure_node
\* fails (unknown column, unparsable reply) no query_structure is stored, no SQL
\* is built, run_sql is never called, the proposer is not asked again, and the
\* request ends with the failure handed to the caller.
C17_BuildOnlyAfterValidation ==
    /\ \A j \in PlacesOf("run_sql") :
          \E i \in PlacesOf("generate_structure") : i < j /\ ~calls[i].out.raised
    /\ "sql_query" \in DOMAIN state => "query_structure" \in DOMAIN state
    /\ \A i \in PlacesOf("generate_structure") :
          calls[i].out.raised =>
              /\ "query_structure" \notin DOMAIN state
              /\ "sql_query" \notin DOMAIN state
              /\ PlacesOf("run_sql") = {}
              /\ PlacesOf("generate_structure") = {i}
              /\ pc = "done"
              /\ "next_agent" \in DOMAIN response
              /\ response.next_agent = "error"
              /\ response.result.error = Str(calls[i].out.msg)

C17_Witness ==
    /\ pc = "done"
    /\ \E i \in PlacesOf("generate_structure") :
          /\ calls[i].out.raised
          /\ ErrorNames(calls[i].out.msg, S("Gender"), "table")
    /\ PlacesOf("run_sql") = {}

\* how far a request has come
Rank(p) ==
    CASE p = "idle" -> 0
      [] p = "user_input" -> 1
      [] p = "fetch_tables" -> 2
      [] p = "select_table" -> 3
      [] p = "fetch_schema" -> 4
      [] p = "generate_structure" -> 5
      [] p = "build_and_execute" -> 6
      [] p = "returned" -> 7
      [] p = "generate_viz" -> 8
      [] p = "run_plot" -> 9
      [] p = "done" -> 10

\* what supervisor promises to return
WellFormedResponse(r) ==
    /\ {"next_agent", "result"} \subseteq DOMAIN r
    /\ r.next_agent \in {"viz", "sql", "error", "end"}

\* a collaborator of the request has raised
SomeCallRaised ==
    \E i \in DOMAIN calls :
        /\ calls[i].fn \in {"generate_structure", "run_sql", "transform_sql_to_viz_data",
                            "generate_viz_code", "run_plot_code"}
        /\ calls[i].out.raised

\* C20: for every user query supervisor terminates (every step of a request
\* moves it forward, and a request that has not returned can take a step) and
\* returns a dict with next_agent, one of viz, sql, error, end, and result; an
\* exception of the SQL agent, the shaper, the code generator or the plot
\* executor ends in such a response and does not leave supervisor.
C20_SupervisorTotal ==
    /\ [](pc = "done" => WellFormedResponse(response))
    /\ [](pc # "done" => ENABLED Next)
    /\ [][request' = request => Rank(pc') > Rank(pc)]_vars

C20_Witness ==
    /\ pc = "done"
    /\ \E i \in PlacesOf("generate_viz_code") : calls[i].out.raised
    /\ response = PipelineError("viz", Str(<<"LLM call failed">>))

\* the drawn intent gives key k a value other than null
Supplied(k) == k \in DOMAIN DrawnIntent /\ DrawnIntent[k] # None

\* C18: a structure returned by generate_structure_node carries all seven keys,
\* with operation = SELECT and columns = [] when the intent supplied no usable
\* value, and where, order_by, order_direction, limit null when not supplied.
C18_FullyNormalized ==
    Validated =>
        /\ IntentKeys \subseteq DOMAIN Structure
        /\ ~Supplied("operation") => Structure["operation"] = S("SELECT")
        /\ ~Supplied("columns") => Structure["columns"] = List(<<>>)
        /\ \A k \in {"where", "order_by", "order_direction", "limit"} :
              ~Supplied(k) => Structure[k] = None

\* the operators a predicate may carry
Operators == {"=", ">", "<", ">=", "<=", "LIKE", "!="}

\* C19: every field of a structure that passed validation lies in its declared
\* domain: operation SELECT or COUNT, every predicate operator one of the seven,
\* order_direction ASC, DESC or null, limit a positive integer or null; any
\* other intent has been rejected before the builder runs.
C19_FieldsInDomain ==
    Validated =>
        /\ Structure["operation"] \in {S("SELECT"), S("COUNT")}
        /\ Structure["where"].t = "list" =>
              \A w \in Range(Structure["where"].v) : w["operator"] \in {S(o) : o \in Operators}
        /\ Structure["order_direction"] \in {S("ASC"), S("DESC"), None}
        /\ \/ Structure["limit"] = None
           \/ Structure["limit"].t = "int" /\ Structure["limit"].v > 0

\* the place i of the text a begins a statement: only blanks lie between it and
\* the start of its line or the semicolon before it
StatementStart(a, i) ==
    \E j \in 0..(i - 1) :
        /\ j = 0 \/ a[j] \in {"\n", ";"}
        /\ \A k \in (j + 1)..(i - 1) : a[k] = " "

\* the text holds an import statement: import or from, then a blank, where a
\* statement begins
HasImport(a) ==
    \E i \in DOMAIN a :
        /\ a[i] \in {"import", "from"}
        /\ StatementStart(a, i)
        /\ At(a, i + 1, <<" ">>)
        /\ \E k \in (i + 2)..Len(a) : a[k] = "os" /\ \A m \in (i + 2)..(k - 1) : a[m] = " "

\* a line that holds no import statement
PlainLine(line) == ~HasImport(line)

\* C21: what sanitize_plot_code returns contains no import statement, every
\* other line of the input is in it unchanged and in the original order, and
\* code without an import statement comes back identical.
C21_ImportsRemoved ==
    v_pc = "sanitized" =>
        /\ ~HasImport(v_out)
        /\ v_out = Join(SelectSeq(SplitLines(v_in, <<>>), PlainLine), <<"\n">>)
        /\ ~HasImport(v_in) => v_out = v_in

\* a text of the model with no backtick in it
NoBacktick(a) == \A i \in DOMAIN a : a[i] \notin {"tick", "fence"}

\* the code a text wraps: between a fence line (plain or python) and a closing
\* fence line, or between two single backticks
InnerCode(a) ==
    LET inner(first, last) == SubSeq(a, first, last)
        plain == Fence \o <<"\n">>
        python == Fence \o <<"python", "\n">>
        close == <<"\n">> \o Fence
        blocks == {inner(Len(open) + 1, Len(a) - Len(close)) :
                      open \in {o \in {plain, python} :
                                   /\ Len(a) > Len(o) + Len(close)
                                   /\ At(a, 1, o)
                                   /\ At(a, Len(a) - Len(close) + 1, close)}}
        ticks == IF Len(a) > 2 /\ a[1] = "tick" /\ a[Len(a)] = "tick"
                 THEN {inner(2, Len(a) - 1)} ELSE {}
    IN {c \in blocks \cup ticks : NoBacktick(c)}

\* C22: strip_code_markers returns the inner code (without the whitespace around
\* it) of a text wrapped in a fenced block (plain or python) or in single
\* backticks, with no triple backtick left;
\* a text without markers comes back unchanged; and applying it to its own
\* result changes nothing.
C22_MarkersStripped ==
    /\ v_pc \in {"stripped", "restripped"} =>
          /\ \A c \in InnerCode(Spell(v_in)) :
                v_out = StripBlank(c) /\ ~Contains(v_out, Fence)
          /\ NoBacktick(v_in) => v_out = v_in
    /\ v_pc = "restripped" => v_again = v_out

\* the first name of the list ns that validation does not know
FirstOffender(ns) ==
    ns[CHOOSE i \in DOMAIN ns : ns[i] \notin Available /\ \A j \in 1..(i - 1) : ns[j] \in Available]

\* the one name, with its field, that the error must report: select columns
\* first, then the WHERE predicates, then order_by
ExpectedOffender ==
    IF UnknownSelected # {}
    THEN <<FirstOffender(DrawnIntent["columns"].v), "table">>
    ELSE IF UnknownWhere # {}
    THEN LET ws == DrawnIntent["where"].v
         IN <<FirstOffender([i \in DOMAIN ws |-> ws[i]["column"]]), "WHERE clause">>
    ELSE <<DrawnIntent["order_by"], "ORDER BY">>

\* C23: the checks run in the order select columns, WHERE predicates in list
\* order, order_by, and stop at the first violation: the one error raised names
\* the first out-of-schema column in that order and nothing later.
C23_FirstViolationWins ==
    c_pc = "rejected" =>
        \A n \in IntentNames, place \in {"table", "WHERE clause", "ORDER BY"} :
            ErrorNames(c_validated.msg, n, place) <=> <<n, place>> = ExpectedOffender

C23_Witness ==
    /\ c_pc = "rejected"
    /\ Get(DrawnIntent, "columns") = List(<<ZipCode, S("Gender")>>)
    /\ UnknownWhere # {} /\ UnknownOrderBy # {}
    /\ ErrorNames(c_validated.msg, ZipCode, "table")

\* the columns the database holds now for table name t
ColumnsNow(t) ==
    LET at == {i \in DOMAIN schema.tables : schema.tables[i] = t}
    IN IF at = {} THEN <<>> ELSE schema.columns[CHOOSE i \in at : TRUE]

\* C24: when generate_structure_node runs, the table list and the column list
\* it works with were fetched from the schema provider earlier in this same
\* request, tables first, and are what the database holds during this request:
\* nothing fetched for an earlier request is used, so a schema change between
\* two requests is seen by the second.
C24_SchemaFetchedPerRequest ==
    \A k \in PlacesOf("generate_structure") :
        \E i, j \in 1..(k - 1) :
            /\ i < j
            /\ calls[i].fn = "get_tables"
            /\ calls[i].out = List(schema.tables)
            /\ state["tables"] = calls[i].out
            /\ calls[j].fn = "get_table_columns"
            /\ calls[j].arg = state["selected_table"]
            /\ calls[j].out = List(ColumnsNow(state["selected_table"]))
            /\ state["columns"] = calls[j].out
            /\ calls[k].arg # NotJson =>
                  calls[k].out = ValidateStructure(calls[k].arg, state["selected_table"],
                                                   ColumnsNow(state["selected_table"]))

C24_Witness ==
    /\ request = 2
    /\ schema = Schema1
    /\ PlacesOf("generate_structure") # {}
    /\ Get(state, "selected_table") = S("people")
    /\ "query_structure" \in DOMAIN state
    /\ state["query_structure"].v["columns"] = List(<<S("Email")>>)

\* C25: in a request the executor is called at most once, with exactly the
\* string build_sql_from_structure returns for the request's validated
\* structure; a failed execution is followed by no further call, and the
\* sql_query stored and handed back is the string that was executed.
C25_ExecutedOnceVerbatim ==
    /\ Cardinality(PlacesOf("run_sql")) <= 1
    /\ \A j \in PlacesOf("run_sql") :
          /\ j = Len(calls) \/ calls[j + 1].fn # "run_sql"
          /\ calls[j].arg = Str(build_sql_from_structure(state["query_structure"].v).value)
          /\ state["sql_query"] = calls[j].arg
          /\ sql_response.sql = calls[j].arg
          /\ (pc = "done" /\ route = "sql") => response.result.sql = calls[j].arg

C25_Witness ==
    /\ pc = "done" /\ route = "sql"
    /\ \E j \in PlacesOf("run_sql") :
          /\ calls[j].out.raised
          /\ calls[j].arg = Str(<<"SELECT COUNT(*)", " FROM ", "people", " WHERE ",
                                  "Sex", " ", "=", " ", "'", "Male", "'">>)
    /\ response.result.sql = sql_response.sql

ZeroRows ==
    \E j \in PlacesOf("run_sql") :
        ~calls[j].out.raised /\ calls[j].out.value = S("Query returned no results.")

\* C27: when the query of a request matches zero rows the outcome is no error,
\* and what the result shaper hands on is the empty sequence, which is neither
\* an error record nor one of the three shaped records.
C27_ZeroRowsGiveEmptyResult ==
    ZeroRows =>
        /\ ~(sql_response.result.t = "dict" /\ "error" \in DOMAIN sql_response.result.v)
        /\ \A i \in PlacesOf("transform_sql_to_viz_data") :
              calls[i].out = Return(List(<<>>))

\* the inputs the docstring calls already processed: a dict, or a list that
\* holds something and whose items are not tuples
AlreadyProcessed(x) ==
    \/ x.t = "dict"
    \/ x.t = "list" /\ x.v # <<>> /\ \A i \in DOMAIN x.v : x.v[i].t # "tuple"

\* C28: transform_sql_to_viz_data returns a dict, and a non-empty list whose
\* items are not tuples, as they are; it never returns None for them.
C28_ProcessedPassThrough ==
    (Shaped /\ AlreadyProcessed(s_in)) =>
        /\ ~s_out.raised
        /\ s_out.value = s_in

\* the lower-cased query holds a keyword of the list ws
Mentions(ws) == \E word \in ws : Contains(Lower(user_query), word)

\* the stage of the pipeline a collaborator belongs to: the SQL agent (1), the
\* result shaper (2), the code generator (3), the plot executor (4)
Stage(fn) ==
    CASE fn = "transform_sql_to_viz_data" -> 2
      [] fn = "generate_viz_code" -> 3
      [] fn = "run_plot_code" -> 4
      [] OTHER -> 1
StagesRun == {Stage(calls[i].fn) : i \in DOMAIN calls}

\* the stages ran in pipeline order, none before the one ahead of it, and each
\* of the three supervisor steps once
InPipelineOrder ==
    /\ \A i, j \in DOMAIN calls : i < j => Stage(calls[i].fn) <= Stage(calls[j].fn)
    /\ \A s \in StagesRun : \A before \in 1..(s - 1) : before \in StagesRun
    /\ \A s \in 2..4 : Cardinality({i \in DOMAIN calls : Stage(calls[i].fn) = s}) <= 1

PlacesOfPiece(s, k) == {i \in DOMAIN s : s[i] = k}

\* the pieces that open a statement the builder can write
Projections == {"SELECT COUNT(*)", "SELECT ", "SELECT *"}

\* C30: every string the builder returns is SELECT <projection> FROM <table>
\* followed by the optional clauses in the order WHERE, ORDER BY, LIMIT, each at
\* most once; the statement keyword is SELECT whatever the operation, any
\* operation other than COUNT giving a column projection; and a COUNT
\* structure with order_by set still gets its ORDER BY clause.
C30_StatementShape ==
    Built =>
        LET from == PlacesOfPiece(Sql, " FROM ")
            where == PlacesOfPiece(Sql, " WHERE ")
            order == PlacesOfPiece(Sql, " ORDER BY ")
            limit == PlacesOfPiece(Sql, " LIMIT ")
            by == Structure["order_by"]
        IN /\ Sql[1] \in Projections
           /\ \A i \in 2..Len(Sql) : Sql[i] \notin Projections
           /\ Cardinality(from) = 1
           /\ \A i \in from : /\ i > 1
                              /\ SubSeq(Sql, i + 1, i + Len(Structure["table"].v))
                                     = Structure["table"].v
                              /\ AfterWhere(Sql, i + Len(Structure["table"].v) + 1)
                                     \/ Sql[i + Len(Structure["table"].v) + 1] = " WHERE "
           /\ Cardinality(where) <= 1 /\ Cardinality(order) <= 1
           /\ Cardinality(limit) <= 1
           /\ \A f \in from : \A w \in where : f < w
           /\ \A f \in from : \A o \in order : f < o
           /\ \A f \in from : \A l \in limit : f < l
           /\ \A w \in where : \A o \in order : w < o
           /\ \A w \in where : \A l \in limit : w < l
           /\ \A o \in order : \A l \in limit : o < l
           /\ (Sql[1] = "SELECT COUNT(*)") <=> (Structure["operation"] = S("COUNT"))
           /\ (Structure["operation"] = S("COUNT") /\ by.t = "str" /\ by.v # <<>>) =>
                  Contains(Sql, <<" ORDER BY ">> \o Written(by))

C30_Witness ==
    /\ Built
    /\ Structure["operation"] = S("COUNT")
    /\ Structure["order_by"] = S("Sex")
    /\ Structure["where"].t = "list" /\ Structure["where"].v # <<>>
    /\ StartsWith(Sql, <<"SELECT COUNT(*)", " FROM ", "people", " WHERE ">>)
    /\ Contains(Sql, <<" ORDER BY ", "Sex">>)

====
